---- MODULE Spec2Model ----
(***************************************************************************)
(* Model of iff (src/main.rs): an interactive shell-history picker.        *)
(*                                                                         *)
(* A Rust String is a sequence of characters; a character is a one-element *)
(* TLA+ string ("l", " ", ...).  Option<T> is a sequence of length <= 1:   *)
(* None is <<>> and Some(v) is <<v>>.                                      *)
(*                                                                         *)
(* Spec      : main() from the state App::new returns, through the event   *)
(*             loop, to process exit or replacement by exec.               *)
(* SpecParse : parse_command_string applied to bounded input strings.      *)
(* SpecLoad  : App::new reading one history file of bounded raw lines.     *)
(* SpecStart : main() from its start, over the files of PATHS being        *)
(*             absent, unreadable or readable, and then as Spec.           *)
(***************************************************************************)
EXTENDS Integers, Sequences, FiniteSets, TLC

VARIABLES
    pc,                 \* position of main(): see the actions below
    home_set,           \* whether the environment holds HOME
    fs,                 \* the files of PATHS under HOME, in the order of PATHS
    cli_args,           \* Cli.args : Vec<String>, the command-line words
    should_quit,        \* App.should_quit
    command_history,    \* App.command_history : Vec<String>
    selected,           \* App.list_state.selected() : Option<usize>
    search_input,       \* App.search_input : String
    filtered_commands,  \* App.filtered_commands : Vec<usize> (0-based indices)
    selected_command,   \* App.selected_command : Option<String>
    key,                \* the event last returned by event::read() in main
    terminal,           \* "cooked" | "raw": the terminal mode ratatui toggles
    launched,           \* the (program, args) pairs handed to Command::exec
    stderr,             \* diagnostics written to the error stream
    exit_status,        \* Option<i32>: the status the process exited with
    input,              \* SpecParse: the argument of parse_command_string
    parse_result        \* SpecParse: Option<(String, Vec<String>)>

vars == <<pc, home_set, fs, cli_args, should_quit, command_history, selected, search_input,
          filtered_commands, selected_command, key, terminal, launched,
          stderr, exit_status, input, parse_result>>

appVars == <<should_quit, command_history, selected, search_input,
             filtered_commands, selected_command>>

None == <<>>
Some(v) == <<v>>

----------------------------------------------------------------------------
(* Bounds of the model *)

MaxHist == 3      \* longest command_history
MaxQuery == 2     \* AppendChar is taken while the query is shorter than this
MaxInput == 4     \* longest enumerated input of parse_command_string
MaxLines == 3     \* most raw lines of an enumerated history file

----------------------------------------------------------------------------
(* Strings *)

ls == <<"l", "s">>
ls_la == <<"l", "s", " ", "-", "l", "a">>
cd_tmp == <<"c", "d", " ", "/", "t", "m", "p">>
L_SIGMA_s == <<"L", "SIGMA", "s">>
dash_la == <<"-", "l", "a">>

\* char::to_lowercase for the characters of the model, except U+03A3.
LowerChar(c) ==
    CASE c = "L" -> "l"
      [] c = "S" -> "s"
      [] c = "Q" -> "q"
      [] c = "J" -> "j"
      [] c = "K" -> "k"
      [] OTHER -> c

\* Characters with the Unicode property Cased, among those of the model.
Cased(c) == c \in {"l", "s", "L", "S", "a", "c", "d", "t", "m", "p", "q", "j",
                   "k", "Q", "J", "K", "SIGMA", "sigma", "fsigma"}

\* str::to_lowercase: every character is mapped on its own, except the
\* capital sigma U+03A3 ("SIGMA"), which becomes the final sigma "fsigma" when
\* a cased letter precedes it and none follows it, and "sigma" otherwise.
\* (No character of the model is Case_Ignorable.)
to_lowercase(s) ==
    [i \in 1..Len(s) |->
        IF s[i] = "SIGMA"
        THEN IF /\ i > 1 /\ Cased(s[i - 1])
                /\ ~(i < Len(s) /\ Cased(s[i + 1]))
             THEN "fsigma" ELSE "sigma"
        ELSE LowerChar(s[i])]

\* str::contains(&str): pat occurs in s as a contiguous substring.
contains(s, pat) ==
    \E k \in 0..(Len(s) - Len(pat)) :
        \A j \in 1..Len(pat) : s[k + j] = pat[j]

\* [String]::join(" ")
RECURSIVE join(_)
join(words) ==
    IF words = <<>> THEN <<>>
    ELSE IF Len(words) = 1 THEN words[1]
    ELSE words[1] \o <<" ">> \o join(Tail(words))

\* All sequences over S of length at most n.
SeqUpTo(S, n) == UNION {[1..k -> S] : k \in 0..n}

----------------------------------------------------------------------------
(* Inputs of the session *)

\* Entries a history can hold: each is non-blank, as load_history leaves them.
EntryPool == {ls, ls_la, cd_tmp, L_SIGMA_s}

\* Loaded histories: duplicate-free, as load_history leaves them.
Histories ==
    {h \in SeqUpTo(EntryPool, MaxHist) :
        \A i, j \in 1..Len(h) : i /= j => h[i] /= h[j]}

\* cli.args: the words given on the command line.
ArgsSet == {<<>>, <<ls>>, <<ls, dash_la>>, <<cd_tmp>>, <<L_SIGMA_s>>}

\* KeyCode values event::read() can deliver.
KeyChars == {"q", "j", "k", "l", "s", "L", "SIGMA", "Q"}
Char(c) == <<"Char", c>>
Esc == <<"Esc", "">>
Down == <<"Down", "">>
Up == <<"Up", "">>
Backspace == <<"Backspace", "">>
Enter == <<"Enter", "">>
Tab == <<"Tab", "">>
NoKey == <<"None", "">>
\* An event that is not Event::Key.
Resize == <<"Resize", "">>
Keys == {Char(c) : c \in KeyChars} \cup {Esc, Down, Up, Backspace, Enter, Tab}

----------------------------------------------------------------------------
(* fn load_history() -> Result<Vec<String>> *)

\* static PATHS
PATHS == <<".bash_history", ".zsh_history">>

\* What a path under HOME can be: no such file (exists() is false), a file
\* that fs::read_to_string fails on, or a file read as the lines that
\* content.lines() yields, oldest first.
Absent == <<"absent">>
Unreadable == <<"unreadable">>
File(lines) == <<"file", lines>>

\* char::is_whitespace, among the characters of the model.
Whitespace == {" ", "\t"}

\* cmd.trim().is_empty()
trim_is_empty(cmd) == \A i \in 1..Len(cmd) : cmd[i] \in Whitespace

\* The closure cutting every line that holds a ';', whatever it starts with.
normalize_line_any_prefix(line) ==
    IF \E p \in 1..Len(line) : line[p] = ";"
    THEN LET pos == CHOOSE p \in 1..Len(line) :
                      /\ line[p] = ";"
                      /\ \A r \in 1..(p - 1) : line[r] /= ";"
         IN SubSeq(line, pos + 1, Len(line))
    ELSE line

\* The closure of .map(..): a line starting with ':' is cut after its first
\* ';', if it has one.
normalize_line(line) ==
    IF /\ line /= <<>> /\ line[1] = ":"
       /\ \E p \in 1..Len(line) : line[p] = ";"
    THEN LET pos == CHOOSE p \in 1..Len(line) :
                      /\ line[p] = ";"
                      /\ \A r \in 1..(p - 1) : line[r] /= ";"
         IN SubSeq(line, pos + 1, Len(line))
    ELSE line

NotBlank(cmd) == ~trim_is_empty(cmd)

\* Vec::reverse
Reverse(seq) == [i \in 1..Len(seq) |-> seq[Len(seq) + 1 - i]]

\* commands.retain(|cmd| seen.insert(cmd.clone())), from element i on: an
\* element is kept when its text is not yet in seen.
RECURSIVE retain_unseen(_, _, _)
retain_unseen(commands, i, seen) ==
    IF i > Len(commands) THEN <<>>
    ELSE IF commands[i] \in seen
         THEN retain_unseen(commands, i + 1, seen)
         ELSE <<commands[i]>>
                  \o retain_unseen(commands, i + 1, seen \cup {commands[i]})

\* The block deduplicating before it reverses: the oldest occurrence is kept.
load_file_dedup_first(lines) ==
    LET mapped == [i \in 1..Len(lines) |-> normalize_line(lines[i])]
        commands == SelectSeq(mapped, NotBlank)
    IN Reverse(retain_unseen(commands, 1, {}))

\* The body of the if full_path.exists() block, after the read succeeded.
load_file(lines) ==
    LET mapped == [i \in 1..Len(lines) |-> normalize_line(lines[i])]
        commands == SelectSeq(mapped, NotBlank)
    IN retain_unseen(Reverse(commands), 1, {})

\* The loop going on to the next candidate when the read fails.
RECURSIVE load_from_skip_unreadable(_, _)
load_from_skip_unreadable(files, i) ==
    IF i > Len(PATHS) THEN <<"Ok", <<>>>>
    ELSE IF files[i] \in {Absent, Unreadable}
         THEN load_from_skip_unreadable(files, i + 1)
    ELSE <<"Ok", load_file(files[i][2])>>

\* for path in PATHS, from candidate i on.
RECURSIVE load_from(_, _)
load_from(files, i) ==
    IF i > Len(PATHS) THEN <<"Ok", <<>>>>
    ELSE IF files[i] = Absent THEN load_from(files, i + 1)
    ELSE IF files[i] = Unreadable THEN <<"Err", <<>>>>
    ELSE <<"Ok", load_file(files[i][2])>>

\* load_history: <<"Ok", commands>>, <<"Err", _>> when the read fails, or
\* <<"Panic", _>> when HOME is not set (the expect).
load_history(home, files) ==
    IF ~home THEN <<"Panic", <<>>>> ELSE load_from(files, 1)

----------------------------------------------------------------------------
(* impl App *)

\* Ascending list of the elements of a finite set of naturals.
RECURSIVE Ascending(_)
Ascending(S) ==
    IF S = {} THEN <<>>
    ELSE LET m == CHOOSE x \in S : \A y \in S : x <= y
         IN <<m>> \o Ascending(S \ {m})

\* filter_commands comparing the lowercased command with the query as typed.
filter_commands_raw_query(commands, query) ==
    IF query = <<>>
    THEN [i \in 1..Len(commands) |-> i - 1]
    ELSE Ascending({i \in 0..(Len(commands) - 1) :
            contains(to_lowercase(commands[i + 1]), query)})

\* fn filter_commands(commands, query) -> Vec<usize>
\* iter().enumerate().filter(..).map(|(i, _)| i).collect() keeps the indices
\* in increasing order.
filter_commands(commands, query) ==
    IF query = <<>>
    THEN [i \in 1..Len(commands) |-> i - 1]
    ELSE Ascending({i \in 0..(Len(commands) - 1) :
            contains(to_lowercase(commands[i + 1]), to_lowercase(query))})

\* fn new(initial_args) -> Result<Self>, given what load_history returned.
App_new(history, initial_args) ==
    LET query == join(initial_args)
        filtered == filter_commands(history, query)
    IN [should_quit |-> FALSE,
        command_history |-> history,
        list_state |-> IF filtered /= <<>> THEN Some(0) ELSE None,
        search_input |-> query,
        filtered_commands |-> filtered,
        selected_command |-> None]

\* update_filter keeping the cursor where it still fits the new list.
update_filter_keep_cursor ==
    /\ filtered_commands' = filter_commands(command_history, search_input')
    /\ selected' = IF filtered_commands' = <<>> THEN None
                   ELSE IF selected /= None
                           /\ selected[1] < Len(filtered_commands')
                        THEN selected ELSE Some(0)

\* fn update_filter(&mut self): runs after search_input has been changed.
update_filter ==
    /\ filtered_commands' = filter_commands(command_history, search_input')
    /\ selected' = IF filtered_commands' /= <<>> THEN Some(0) ELSE None

\* select_next without its early return on an empty list.
select_next_no_guard ==
    selected' = Some(
        IF selected /= None
        THEN IF selected[1] + 1 >= Len(filtered_commands)
             THEN 0 ELSE selected[1] + 1
        ELSE 0)

\* select_next without the wrap from the last row to the first.
select_next_no_wrap ==
    IF filtered_commands = <<>>
    THEN selected' = selected
    ELSE selected' = Some(IF selected /= None THEN selected[1] + 1 ELSE 0)

\* fn select_next(&mut self)
select_next ==
    IF filtered_commands = <<>>
    THEN selected' = selected
    ELSE selected' = Some(
            IF selected /= None
            THEN IF selected[1] >= Len(filtered_commands) - 1
                 THEN 0 ELSE selected[1] + 1
            ELSE 0)

\* select_previous stopping at the first row instead of wrapping.
select_previous_no_wrap ==
    IF filtered_commands = <<>>
    THEN selected' = selected
    ELSE selected' = Some(
            IF selected /= None /\ selected[1] > 0 THEN selected[1] - 1 ELSE 0)

\* fn select_previous(&mut self)
select_previous ==
    IF filtered_commands = <<>>
    THEN selected' = selected
    ELSE selected' = Some(
            IF selected /= None
            THEN IF selected[1] = 0
                 THEN Len(filtered_commands) - 1 ELSE selected[1] - 1
            ELSE 0)

\* String::pop: removes the last character, if any.
pop(s) == IF s = <<>> THEN s ELSE SubSeq(s, 1, Len(s) - 1)

\* The Enter arm indexing command_history with the cursor itself, not through
\* filtered_commands.
handle_key_Enter_unfiltered ==
    /\ selected_command' =
          IF /\ selected /= None
             /\ selected[1] < Len(filtered_commands)
          THEN Some(command_history[selected[1] + 1])
          ELSE selected_command
    /\ should_quit' = TRUE
    /\ UNCHANGED <<command_history, selected, search_input,
                   filtered_commands>>

\* The Enter arm falling back to the first history entry without a cursor.
handle_key_Enter_default_first ==
    /\ selected_command' =
          IF /\ selected /= None
             /\ selected[1] < Len(filtered_commands)
          THEN Some(command_history[filtered_commands[selected[1] + 1] + 1])
          ELSE IF command_history /= <<>> THEN Some(command_history[1])
          ELSE selected_command
    /\ should_quit' = TRUE
    /\ UNCHANGED <<command_history, selected, search_input,
                   filtered_commands>>

\* The KeyCode::Enter arm of handle_key.
handle_key_Enter ==
    /\ selected_command' =
          IF /\ selected /= None
             /\ selected[1] < Len(filtered_commands)
          THEN Some(command_history[filtered_commands[selected[1] + 1] + 1])
          ELSE selected_command
    /\ should_quit' = TRUE
    /\ UNCHANGED <<command_history, selected, search_input,
                   filtered_commands>>

\* handle_key with the catch-all arm ending the session.
handle_key_other_quits(k) ==
    IF k \in {Char("q"), Esc} THEN
        /\ should_quit' = TRUE
        /\ UNCHANGED <<command_history, selected, search_input,
                       filtered_commands, selected_command>>
    ELSE IF k \in {Down, Char("j")} THEN
        /\ select_next
        /\ UNCHANGED <<should_quit, command_history, search_input,
                       filtered_commands, selected_command>>
    ELSE IF k \in {Up, Char("k")} THEN
        /\ select_previous
        /\ UNCHANGED <<should_quit, command_history, search_input,
                       filtered_commands, selected_command>>
    ELSE IF k[1] = "Char" THEN
        /\ search_input' = Append(search_input, k[2])
        /\ update_filter
        /\ UNCHANGED <<should_quit, command_history, selected_command>>
    ELSE IF k = Backspace THEN
        /\ search_input' = pop(search_input)
        /\ update_filter
        /\ UNCHANGED <<should_quit, command_history, selected_command>>
    ELSE IF k = Enter THEN handle_key_Enter
    ELSE /\ should_quit' = TRUE
         /\ UNCHANGED <<command_history, selected, search_input,
                        filtered_commands, selected_command>>

\* handle_key with the KeyCode::Char(c) arm before the arms of q, j and k.
handle_key_char_first(k) ==
    IF k[1] = "Char" THEN
        /\ search_input' = Append(search_input, k[2])
        /\ update_filter
        /\ UNCHANGED <<should_quit, command_history, selected_command>>
    ELSE IF k = Esc THEN
        /\ should_quit' = TRUE
        /\ UNCHANGED <<command_history, selected, search_input,
                       filtered_commands, selected_command>>
    ELSE IF k = Down THEN
        /\ select_next
        /\ UNCHANGED <<should_quit, command_history, search_input,
                       filtered_commands, selected_command>>
    ELSE IF k = Up THEN
        /\ select_previous
        /\ UNCHANGED <<should_quit, command_history, search_input,
                       filtered_commands, selected_command>>
    ELSE IF k = Backspace THEN
        /\ search_input' = pop(search_input)
        /\ update_filter
        /\ UNCHANGED <<should_quit, command_history, selected_command>>
    ELSE IF k = Enter THEN handle_key_Enter
    ELSE UNCHANGED appVars

\* fn handle_key(&mut self, key): the match on key.code, arm by arm.
handle_key(k) ==
    IF k \in {Char("q"), Esc} THEN
        /\ should_quit' = TRUE
        /\ UNCHANGED <<command_history, selected, search_input,
                       filtered_commands, selected_command>>
    ELSE IF k \in {Down, Char("j")} THEN
        /\ select_next
        /\ UNCHANGED <<should_quit, command_history, search_input,
                       filtered_commands, selected_command>>
    ELSE IF k \in {Up, Char("k")} THEN
        /\ select_previous
        /\ UNCHANGED <<should_quit, command_history, search_input,
                       filtered_commands, selected_command>>
    ELSE IF k[1] = "Char" THEN
        /\ search_input' = Append(search_input, k[2])
        /\ update_filter
        /\ UNCHANGED <<should_quit, command_history, selected_command>>
    ELSE IF k = Backspace THEN
        /\ search_input' = pop(search_input)
        /\ update_filter
        /\ UNCHANGED <<should_quit, command_history, selected_command>>
    ELSE IF k = Enter THEN handle_key_Enter
    ELSE UNCHANGED appVars

----------------------------------------------------------------------------
(* fn parse_command_string(input) -> (String, Vec<String>) *)

\* The loop with a space splitting tokens inside quotes too.
RECURSIVE parse_loop_ignore_quotes(_, _, _, _, _)
parse_loop_ignore_quotes(str, i, parts, current, in_quotes) ==
    IF i > Len(str) THEN <<parts, current>>
    ELSE LET c == str[i] IN
        IF c = "\"" THEN
            parse_loop_ignore_quotes(str, i + 1, parts, current, ~in_quotes)
        ELSE IF c = " " THEN
            IF current /= <<>>
            THEN parse_loop_ignore_quotes(str, i + 1, Append(parts, current),
                                          <<>>, in_quotes)
            ELSE parse_loop_ignore_quotes(str, i + 1, parts, current, in_quotes)
        ELSE parse_loop_ignore_quotes(str, i + 1, parts, Append(current, c),
                                      in_quotes)

\* The loop with a quote ending the current token.
RECURSIVE parse_loop_quote_splits(_, _, _, _, _)
parse_loop_quote_splits(str, i, parts, current, in_quotes) ==
    IF i > Len(str) THEN <<parts, current>>
    ELSE LET c == str[i] IN
        IF c = "\"" \/ (c = " " /\ ~in_quotes) THEN
            IF current /= <<>>
            THEN parse_loop_quote_splits(str, i + 1, Append(parts, current),
                                         <<>>, (c = "\"") /= in_quotes)
            ELSE parse_loop_quote_splits(str, i + 1, parts, current,
                                         (c = "\"") /= in_quotes)
        ELSE parse_loop_quote_splits(str, i + 1, parts, Append(current, c),
                                     in_quotes)

\* The for loop over input.chars(), from character i on; the value is
\* <<parts, current>> when the loop ends.
RECURSIVE parse_loop(_, _, _, _, _)
parse_loop(str, i, parts, current, in_quotes) ==
    IF i > Len(str) THEN <<parts, current>>
    ELSE LET c == str[i] IN
        IF c = "\"" THEN
            parse_loop(str, i + 1, parts, current, ~in_quotes)
        ELSE IF c = " " /\ ~in_quotes THEN
            IF current /= <<>>
            THEN parse_loop(str, i + 1, Append(parts, current), <<>>, in_quotes)
            ELSE parse_loop(str, i + 1, parts, current, in_quotes)
        ELSE parse_loop(str, i + 1, parts, Append(current, c), in_quotes)

\* The tokens: the loop's parts plus the final flush of current.
parse_parts(str) ==
    LET r == parse_loop(str, 1, <<>>, <<>>, FALSE)
    IN IF r[2] /= <<>> THEN Append(r[1], r[2]) ELSE r[1]

\* parse_command_string without the skip(1): the program stays among the args.
parse_command_string_no_skip(str) ==
    LET parts == parse_parts(str)
        program == IF parts /= <<>> THEN parts[1] ELSE <<>>
    IN <<program, parts>>

\* let program = parts.first().unwrap_or(&String::new()).clone();
\* let args = parts.into_iter().skip(1).collect();
parse_command_string(str) ==
    LET parts == parse_parts(str)
        program == IF parts /= <<>> THEN parts[1] ELSE <<>>
        args == IF parts /= <<>> THEN Tail(parts) ELSE <<>>
    IN <<program, args>>

----------------------------------------------------------------------------
(* fn main(): the state after App::new(cli.args)? has returned Ok *)

Init ==
    /\ \E h \in Histories, args \in ArgsSet :
         LET app == App_new(h, args) IN
           /\ cli_args = args
           /\ fs = <<File(Reverse(h)), Absent>>
           /\ should_quit = app.should_quit
           /\ command_history = app.command_history
           /\ selected = app.list_state
           /\ search_input = app.search_input
           /\ filtered_commands = app.filtered_commands
           /\ selected_command = app.selected_command
    /\ pc = "init"
    /\ home_set = TRUE
    /\ key = NoKey
    /\ terminal = "cooked"
    /\ launched = <<>>
    /\ stderr = <<>>
    /\ exit_status = None
    /\ input = <<>>
    /\ parse_result = None

\* What no step of the event loop writes.
parseVars == <<home_set, fs, cli_args, input, parse_result>>

\* let mut terminal = ratatui::init();
InitTerminal ==
    /\ pc = "init"
    /\ terminal' = "raw"
    /\ pc' = "draw"
    /\ UNCHANGED <<appVars, key, launched, stderr, exit_status, parseVars>>

\* terminal.draw(|frame| app.render(frame))? returning Ok.  render reads the
\* fields of App; with the cursor inside the list it changes none of them.
Draw ==
    /\ pc = "draw"
    /\ pc' = "read"
    /\ UNCHANGED <<appVars, key, terminal, launched, stderr, exit_status,
                   parseVars>>

\* The ? operator on an Err: main returns the error at once; the runtime
\* prints the report and the process exits with status 1.
ReturnErr ==
    /\ pc' = "exited"
    /\ stderr' = Append(stderr, "Error")
    /\ exit_status' = Some(1)
    /\ UNCHANGED <<appVars, key, terminal, launched, parseVars>>

\* terminal.draw(..)? returning Err
DrawFail ==
    /\ pc = "draw"
    /\ ReturnErr

\* event::read()? returning Err
ReadFail ==
    /\ pc = "read"
    /\ ReturnErr

\* if let Event::Key(key) = event::read()? { app.handle_key(key); }
\* The query is kept within MaxQuery characters.
ReadKey ==
    /\ pc = "read"
    /\ \E k \in Keys :
         /\ (k[1] = "Char" /\ k[2] \notin {"q", "j", "k"})
                => Len(search_input) < MaxQuery
         /\ key' = k
         /\ handle_key(k)
    /\ pc' = "check"
    /\ UNCHANGED <<terminal, launched, stderr, exit_status, parseVars>>

\* event::read()? returning an event that is not Event::Key (resize, mouse,
\* focus, paste): the if let does not match.
ReadOther ==
    /\ pc = "read"
    /\ key' = Resize
    /\ pc' = "check"
    /\ UNCHANGED <<appVars, terminal, launched, stderr, exit_status,
                   parseVars>>

\* The loop without its break.
CheckQuit_no_break ==
    /\ pc = "check"
    /\ pc' = "draw"
    /\ key' = NoKey
    /\ UNCHANGED <<appVars, terminal, launched, stderr, exit_status,
                   parseVars>>

\* if app.should_quit { break; }  Otherwise the next iteration starts, with
\* no event read yet.
CheckQuit ==
    /\ pc = "check"
    /\ IF should_quit
       THEN pc' = "restore" /\ key' = key
       ELSE pc' = "draw" /\ key' = NoKey
    /\ UNCHANGED <<appVars, terminal, launched, stderr, exit_status,
                   parseVars>>

\* ratatui::restore(); let _ = stdout().execute(Show);
Restore ==
    /\ pc = "restore"
    /\ terminal' = "cooked"
    /\ pc' = "launch"
    /\ UNCHANGED <<appVars, key, launched, stderr, exit_status, parseVars>>

\* if let Some(command) = app.selected_command does not match: Ok(())
ReturnOk ==
    /\ pc = "launch"
    /\ selected_command = None
    /\ pc' = "exited"
    /\ exit_status' = Some(0)
    /\ UNCHANGED <<appVars, key, terminal, launched, stderr, parseVars>>

\* Command::new(com).args(args).exec() replacing the process image.
ExecOk ==
    /\ pc = "launch"
    /\ selected_command /= None
    /\ LET r == parse_command_string(selected_command[1]) IN
         /\ r[1] /= <<>>
         /\ launched' = Append(launched, r)
    /\ pc' = "replaced"
    /\ UNCHANGED <<appVars, key, terminal, stderr, exit_status, parseVars>>

\* The launch without the if let: the command defaults to the empty string.
ExecFail_unconditional ==
    /\ pc = "launch"
    /\ launched' = Append(launched, parse_command_string(
                        IF selected_command /= None
                        THEN selected_command[1] ELSE <<>>))
    /\ stderr' = Append(stderr, "Failed to exec")
    /\ exit_status' = Some(1)
    /\ pc' = "exited"
    /\ UNCHANGED <<appVars, key, terminal, parseVars>>

\* The failed launch without std::process::exit(1): main returns Ok(()).
ExecFail_no_exit ==
    /\ pc = "launch"
    /\ selected_command /= None
    /\ launched' = Append(launched, parse_command_string(selected_command[1]))
    /\ stderr' = Append(stderr, "Failed to exec")
    /\ exit_status' = Some(0)
    /\ pc' = "exited"
    /\ UNCHANGED <<appVars, key, terminal, parseVars>>

\* exec() returning the error: eprintln!(..); std::process::exit(1)
ExecFail ==
    /\ pc = "launch"
    /\ selected_command /= None
    /\ launched' = Append(launched, parse_command_string(selected_command[1]))
    /\ stderr' = Append(stderr, "Failed to exec")
    /\ exit_status' = Some(1)
    /\ pc' = "exited"
    /\ UNCHANGED <<appVars, key, terminal, parseVars>>

Next ==
    \/ InitTerminal
    \/ Draw
    \/ DrawFail
    \/ ReadKey
    \/ ReadOther
    \/ ReadFail
    \/ CheckQuit
    \/ Restore
    \/ ReturnOk
    \/ ExecOk
    \/ ExecFail

Spec == Init /\ [][Next]_vars

----------------------------------------------------------------------------
(* fn main() from its start: let mut app = App::new(cli.args)?; *)

\* App::new returning Ok: load_history returned the commands.
AppNew ==
    /\ pc = "new"
    /\ LET r == load_history(home_set, fs) IN
         /\ r[1] = "Ok"
         /\ LET app == App_new(r[2], cli_args) IN
              /\ should_quit' = app.should_quit
              /\ command_history' = app.command_history
              /\ selected' = app.list_state
              /\ search_input' = app.search_input
              /\ filtered_commands' = app.filtered_commands
              /\ selected_command' = app.selected_command
    /\ pc' = "init"
    /\ UNCHANGED <<key, terminal, launched, stderr, exit_status, parseVars>>

\* App::new returning the error of fs::read_to_string: the ? in main.
AppNewErr ==
    /\ pc = "new"
    /\ load_history(home_set, fs)[1] = "Err"
    /\ ReturnErr

\* env::var_os("HOME").expect(..) panicking: the process exits with 101.
AppNewPanic ==
    /\ pc = "new"
    /\ load_history(home_set, fs)[1] = "Panic"
    /\ pc' = "exited"
    /\ stderr' = Append(stderr, "HOME isn't set")
    /\ exit_status' = Some(101)
    /\ UNCHANGED <<appVars, key, terminal, launched, parseVars>>

\* The state before App::new: no App yet.
BeforeNew ==
    /\ pc = "new"
    /\ should_quit = FALSE
    /\ command_history = <<>>
    /\ selected = None
    /\ search_input = <<>>
    /\ filtered_commands = <<>>
    /\ selected_command = None
    /\ key = NoKey
    /\ terminal = "cooked"
    /\ launched = <<>>
    /\ stderr = <<>>
    /\ exit_status = None
    /\ input = <<>>
    /\ parse_result = None

\* Raw lines of a history file.
zsh_ls_la == <<":", "1", "6", "1", "0", "0", "0", "0", "0", "0", "0", ":",
               "0", ";", "l", "s", " ", "-", "l", "a">>
colon_ls == <<":", "l", "s">>
blank == <<" ", "\t">>
zsh_blank == <<":", "0", ";", " ">>
ls_semi_ls == <<"l", "s", ";", "l", "s">>
zsh_ls_semi_ls == <<":", "0", ";", "l", "s", ";", "l", "s">>

LinePool == {ls, cd_tmp, ls_la, zsh_ls_la, colon_ls, blank, <<>>, zsh_blank,
             ls_semi_ls, zsh_ls_semi_ls}

\* End-to-end scenario 1: ls, cd /tmp, ls -la, ls.
Scenario1Lines == <<ls, cd_tmp, ls_la, ls>>

LoadInputs == SeqUpTo(LinePool, MaxLines) \cup {Scenario1Lines}

\* App::new with one history file, .bash_history, holding the raw lines.
InitLoad ==
    /\ BeforeNew
    /\ home_set = TRUE
    /\ cli_args = <<>>
    /\ \E lines \in LoadInputs : fs = <<File(lines), Absent>>

NextLoad == AppNew

SpecLoad == InitLoad /\ [][NextLoad]_vars

\* The states of the two candidate files main() is started with.
StartFiles == {Absent, Unreadable, File(<<>>), File(<<ls, cd_tmp>>),
               File(<<zsh_ls_la, ls>>)}

InitStart ==
    /\ BeforeNew
    /\ home_set \in BOOLEAN
    /\ cli_args \in {<<>>, <<ls>>}
    /\ fs \in {<<b, z>> : b \in StartFiles, z \in StartFiles}

NextStart == AppNew \/ AppNewErr \/ AppNewPanic \/ Next

SpecStart == InitStart /\ [][NextStart]_vars

----------------------------------------------------------------------------
(* parse_command_string on its own *)

ParseChars == {"a", "b", " ", "\""}

git_commit == <<"g", "i", "t", " ", "c", "o", "m", "m", "i", "t", " ", "-",
                "m", " ", "\"", "f", "i", "x", " ", "b", "u", "g", "\"">>
a_b_c == <<"a", "\"", "b", "\"", "c">>

ParseInputs == SeqUpTo(ParseChars, MaxInput) \cup {git_commit, a_b_c}

InitParse ==
    /\ input \in ParseInputs
    /\ parse_result = None
    /\ pc = "parse"
    /\ home_set = TRUE
    /\ fs = <<Absent, Absent>>
    /\ cli_args = <<>>
    /\ should_quit = FALSE
    /\ command_history = <<>>
    /\ selected = None
    /\ search_input = <<>>
    /\ filtered_commands = <<>>
    /\ selected_command = None
    /\ key = NoKey
    /\ terminal = "cooked"
    /\ launched = <<>>
    /\ stderr = <<>>
    /\ exit_status = None

\* let (com, args) = parse_command_string(&command);
ParseCall ==
    /\ pc = "parse"
    /\ parse_result' = Some(parse_command_string(input))
    /\ pc' = "parsed"
    /\ UNCHANGED <<appVars, key, terminal, launched, stderr, exit_status,
                   home_set, fs, cli_args, input>>

NextParse == ParseCall

SpecParse == InitParse /\ [][NextParse]_vars

----------------------------------------------------------------------------
(* Properties of the selection engine *)

\* A step of the loop that read event k and, if it is a key, handled it.
Handled(k) == pc = "read" /\ pc' = "check" /\ key' = k

AppendCharKeys == {Char(c) : c \in KeyChars \ {"q", "j", "k"}}
MoveDownKeys == {Down, Char("j")}
MoveUpKeys == {Up, Char("k")}
QuitKeys == {Esc, Char("q")}

\* C1: the cursor is None when filtered_commands is empty and lies in
\* [0, len(filtered_commands)) when it is not, initially and after any keys.
C1_CursorInRange ==
    IF filtered_commands = <<>>
    THEN selected = None
    ELSE /\ selected /= None
         /\ selected[1] \in 0..(Len(filtered_commands) - 1)

\* MoveUp from the first row of a list of three or more has put the cursor
\* on the last row.
C1_Witness ==
    /\ pc = "check"
    /\ key = Up
    /\ Len(filtered_commands) >= 3
    /\ selected = Some(Len(filtered_commands) - 1)

\* The indices of the history entries whose lowercased text contains the
\* lowercased query.
Matching ==
    {i \in 0..(Len(command_history) - 1) :
        contains(to_lowercase(command_history[i + 1]),
                 to_lowercase(search_input))}

\* C2: filtered_commands is exactly the ascending list of the matching
\* indices, the identity sequence when the query is empty; the initial query
\* is the command-line words joined by single spaces.
C2_FilterCorrect ==
    /\ Len(filtered_commands) = Cardinality(Matching)
    /\ \A i \in 1..Len(filtered_commands) : filtered_commands[i] \in Matching
    /\ \A i \in 1..(Len(filtered_commands) - 1) :
          filtered_commands[i] < filtered_commands[i + 1]
    /\ search_input = <<>> =>
          filtered_commands = [i \in 1..Len(command_history) |-> i - 1]
    /\ pc = "init" => search_input = join(cli_args)

\* A typed capital letter has kept a proper, non-empty part of the history
\* whose entries match only after lowercasing.
C2_Witness ==
    /\ pc = "check"
    /\ key = Char("L")
    /\ search_input = <<"L">>
    /\ filtered_commands /= <<>>
    /\ Len(filtered_commands) < Len(command_history)
    /\ ls \in {command_history[i + 1] : i \in Matching}

\* C3: after an AppendChar or Backspace event the cursor is 0 if the new
\* filtered view is non-empty and None otherwise, whatever it was before.
C3_FilterResetsCursor ==
    [][(\E k \in AppendCharKeys \cup {Backspace} : Handled(k))
        => selected' = IF filtered_commands' /= <<>> THEN Some(0) ELSE None]_vars

\* A Backspace has left a view of two or more rows with the cursor on row 0.
C3_Witness ==
    /\ pc = "check"
    /\ key = Backspace
    /\ Len(filtered_commands) >= 2
    /\ selected = Some(0)

\* n, the length of the filtered view.
Rows == Len(filtered_commands)

\* C4: with n > 0 rows MoveDown takes the cursor from i to (i+1) mod n and
\* MoveUp from i to (i-1) mod n; with no rows both leave it None.
C4_SelectionWraps ==
    /\ [][(\E k \in MoveDownKeys : Handled(k)) =>
            IF Rows = 0 THEN selected = None /\ selected' = None
            ELSE selected /= None
                 /\ selected' = Some((selected[1] + 1) % Rows)]_vars
    /\ [][(\E k \in MoveUpKeys : Handled(k)) =>
            IF Rows = 0 THEN selected = None /\ selected' = None
            ELSE selected /= None
                 /\ selected' = Some((selected[1] + Rows - 1) % Rows)]_vars

\* MoveUp has wrapped from row 0 to the last of three or more rows.
C4_Witness ==
    /\ pc = "check"
    /\ key \in MoveUpKeys
    /\ Len(filtered_commands) >= 3
    /\ selected = Some(Len(filtered_commands) - 1)
    /\ search_input /= <<>>

Scenario2 == command_history = <<ls, ls_la, cd_tmp>> /\ search_input = ls

\* C5: Confirm with the cursor at c sets the result to the text of
\* command_history[filtered_commands[c]] and terminates; Confirm with no
\* cursor terminates with no selection.  With history [ls, ls -la, cd /tmp]
\* and seed query ls, MoveDown then Confirm yields ls -la.
C5_ConfirmSelects ==
    /\ [][Handled(Enter) =>
            /\ should_quit'
            /\ selected_command' =
                 IF selected /= None
                 THEN Some(command_history[
                              filtered_commands[selected[1] + 1] + 1])
                 ELSE None]_vars
    /\ [](pc = "init" /\ Scenario2 =>
            filtered_commands = <<0, 1>> /\ selected = Some(0))
    /\ [][Scenario2 /\ selected = Some(0) /\ Handled(Down) =>
            selected' = Some(1)]_vars
    /\ [][Scenario2 /\ selected = Some(1) /\ Handled(Enter) =>
            selected_command' = Some(ls_la)]_vars

\* Confirm on the second of the rows matching ls has chosen ls -la, where
\* the cursor and the history index differ.
C5_Witness ==
    /\ key = Enter
    /\ should_quit
    /\ search_input = ls
    /\ command_history = <<cd_tmp, ls, ls_la>>
    /\ selected = Some(1)
    /\ selected_command = Some(ls_la)

\* The session ended through Confirm with a cursor value.
ConfirmedWithCursor == should_quit /\ key = Enter /\ selected /= None
\* The session ended through Quit, or through Confirm with no cursor.
EndedWithoutCursor ==
    should_quit /\ (key \in QuitKeys \/ (key = Enter /\ selected = None))

\* C6: an exec is attempted if and only if the session ended through Confirm
\* with a cursor value; after Quit, or Confirm with no cursor, no exec is
\* attempted and the process exits with status 0.
C6_ExecIffConfirmed ==
    /\ launched /= <<>> => ConfirmedWithCursor
    /\ (pc \in {"exited", "replaced"} /\ ConfirmedWithCursor)
          => Len(launched) = 1
    /\ EndedWithoutCursor => launched = <<>>
    /\ (pc = "exited" /\ EndedWithoutCursor) => exit_status = Some(0)

\* Confirm on an empty view: the process has exited.
C6_Witness ==
    /\ pc = "exited"
    /\ key = Enter
    /\ selected = None
    /\ command_history /= <<>>
    /\ exit_status = Some(0)

\* C7: only Quit or Confirm set should_quit; once it is set no further event
\* is handled and no field of the engine, the result included, changes.
C7_TerminatesOnce ==
    /\ [][(pc = "read" /\ pc' = "check" /\ key' \notin QuitKeys \cup {Enter})
            => should_quit' = FALSE]_vars
    /\ [][(~should_quit /\ should_quit')
            => \E k \in QuitKeys \cup {Enter} : Handled(k)]_vars
    /\ [][should_quit => (appVars' = appVars /\ key' = key)]_vars
    /\ [][selected_command' /= selected_command
            => selected_command = None /\ Handled(Enter)]_vars

\* The loop was left after a Confirm that produced a result.
C7_Witness ==
    /\ pc \in {"launch", "exited", "replaced"}
    /\ should_quit
    /\ selected_command /= None
    /\ terminal = "cooked"

\* C8: once raw mode has been entered, the terminal is restored whenever the
\* process has exited or has been replaced.
C8_TerminalRestored ==
    pc \in {"exited", "replaced"} => terminal = "cooked"

----------------------------------------------------------------------------
(* Properties of parse_command_string *)

\* The tokens of a result: the program, unless there is none, then the args.
TokensOf(r) == IF r[1] = <<>> /\ r[2] = <<>> THEN <<>> ELSE <<r[1]>> \o r[2]

git == <<"g", "i", "t">>
commit == <<"c", "o", "m", "m", "i", "t">>
dash_m == <<"-", "m">>
fix == <<"f", "i", "x">>
bug == <<"b", "u", "g">>
fix_bug == <<"f", "i", "x", " ", "b", "u", "g">>

\* C9 as stated: git commit -m "fix bug" yields git and
\* [commit, -m, fix, bug].
C9_Original ==
    (pc = "parsed" /\ input = git_commit)
        => parse_result = Some(<<git, <<commit, dash_m, fix, bug>>>>)

\* C9 amended: git commit -m "fix bug" yields git and the three arguments
\* commit, -m and fix bug (one token, with its space, without the quotes).
C9_Amended ==
    (pc = "parsed" /\ input = git_commit)
        => parse_result = Some(<<git, <<commit, dash_m, fix_bug>>>>)

\* git commit -m "fix bug" has been tokenized.
C9_Witness == pc = "parsed" /\ input = git_commit /\ parse_result /= None

NotQuote(c) == c /= "\""
NonEmpty(t) == t /= <<>>

\* The positions of the spaces preceded by an even number of double quotes.
Boundaries(str) ==
    {i \in 1..Len(str) :
        /\ str[i] = " "
        /\ Cardinality({j \in 1..(i - 1) : str[j] = "\""}) % 2 = 0}

\* The input cut at those spaces only, the quotes removed from each piece and
\* the empty pieces dropped.
ExpectedTokens(str) ==
    LET cuts == Ascending(Boundaries(str) \cup {0, Len(str) + 1})
        pieces == [k \in 1..(Len(cuts) - 1) |->
                     SelectSeq(SubSeq(str, cuts[k] + 1, cuts[k + 1] - 1),
                               NotQuote)]
    IN SelectSeq(pieces, NonEmpty)

\* C10: no token is empty or holds a double quote; a space ends a token only
\* after an even number of quotes, an unmatched quote holds to the end of the
\* input, and a quote never splits a token (a"b"c is the one token abc).
C10_QuoteToggle ==
    pc = "parsed" =>
        LET tokens == TokensOf(parse_result[1]) IN
        /\ \A k \in 1..Len(tokens) :
              /\ tokens[k] /= <<>>
              /\ \A j \in 1..Len(tokens[k]) : tokens[k][j] /= "\""
        /\ tokens = ExpectedTokens(input)
        /\ input = a_b_c => tokens = << <<"a", "b", "c">> >>

\* An unmatched quote has kept the following spaces inside the one token.
C10_Witness ==
    /\ pc = "parsed"
    /\ input = <<"a", "\"", " ", " ">>
    /\ parse_result = Some(<< <<"a", " ", " ">>, <<>> >>)

\* The input is empty or holds nothing but spaces and double quotes.
OnlySpacesAndQuotes(str) == \A i \in 1..Len(str) : str[i] \in {" ", "\""}

\* Every character of the input is a double quote or a space preceded by an
\* even number of double quotes.
OnlyQuotesAndBoundaries(str) ==
    \A i \in 1..Len(str) : str[i] = "\"" \/ i \in Boundaries(str)

\* The first token is the program and the following tokens are the args, in
\* order; with no token the program is empty and there are no args.
ProgramThenArgs ==
    LET r == parse_result[1]
        tokens == ExpectedTokens(input)
    IN /\ tokens /= <<>> => r = <<tokens[1], Tail(tokens)>>
       /\ tokens = <<>> => r = << <<>>, <<>> >>
       /\ r[1] = <<>> <=> tokens = <<>>

\* C11 as stated: program first, args after it in order, and the program is
\* empty exactly when the input is empty or only spaces and double quotes.
C11_Original ==
    pc = "parsed" =>
        /\ ProgramThenArgs
        /\ parse_result[1][1] = <<>> <=> OnlySpacesAndQuotes(input)

\* C11 amended: program first, args after it in order, and the program is
\* empty (with no args) exactly when the input yields no token, that is when
\* it holds nothing but double quotes and spaces outside quotes.
C11_Amended ==
    pc = "parsed" =>
        /\ ProgramThenArgs
        /\ parse_result[1][1] = <<>> <=> OnlyQuotesAndBoundaries(input)

\* A quoted space alone is a token: the program is one space.
C11_Witness ==
    /\ pc = "parsed"
    /\ input = <<"\"", " ", "\"", " ">>
    /\ parse_result = Some(<< <<" ">>, <<>> >>)

----------------------------------------------------------------------------
(* Properties of the loader *)

\* The raw lines of the one file SpecLoad reads, oldest first.
RawLines == fs[1][2]

\* The normalized, non-blank lines, still oldest first.
Chronological ==
    SelectSeq([i \in 1..Len(RawLines) |-> normalize_line(RawLines[i])],
              NotBlank)

\* The position of the last occurrence of text t in seq.
LastPos(t, seq) ==
    CHOOSE i \in 1..Len(seq) :
        seq[i] = t /\ \A j \in (i + 1)..Len(seq) : seq[j] /= t

\* C12: the loaded history has no two entries with the same text, holds every
\* distinct normalized non-blank line exactly once, and is ordered by the
\* position of each text's last occurrence, latest first (ls, cd /tmp,
\* ls -la, ls loads as [ls, ls -la, cd /tmp]; a, b, c loads as [c, b, a]).
C12_DedupLatestFirst ==
    pc = "init" =>
        LET h == command_history
            c == Chronological
        IN /\ \A i, j \in 1..Len(h) : i /= j => h[i] /= h[j]
           /\ {h[i] : i \in 1..Len(h)} = {c[i] : i \in 1..Len(c)}
           /\ \A i, j \in 1..Len(h) :
                 i < j => LastPos(h[i], c) > LastPos(h[j], c)
           /\ RawLines = Scenario1Lines => h = <<ls, ls_la, cd_tmp>>
           /\ RawLines = <<ls, cd_tmp, ls_la>> => h = <<ls_la, cd_tmp, ls>>

\* A text repeated around another one has been loaded once, at the place of
\* its last occurrence.
C12_Witness ==
    /\ pc = "init"
    /\ RawLines = <<ls, cd_tmp, ls>>
    /\ command_history = <<ls, cd_tmp>>

\* e is what the claim makes of a raw line: the text after the first ';' for
\* a line that starts with ':' and holds a ';', the line itself otherwise.
IsNormalized(e, line) ==
    IF /\ line /= <<>> /\ line[1] = ":"
       /\ \E p \in 1..Len(line) : line[p] = ";"
    THEN \E p \in 1..Len(line) :
            /\ line[p] = ";"
            /\ \A r \in 1..(p - 1) : line[r] /= ";"
            /\ e = SubSeq(line, p + 1, Len(line))
    ELSE e = line

\* The texts that survive: the normalized lines not blank after trimming.
Surviving ==
    {e \in UNION {{SubSeq(RawLines[i], p, Len(RawLines[i])) :
                        p \in 1..(Len(RawLines[i]) + 1)} :
                    i \in 1..Len(RawLines)} :
        /\ \E i \in 1..Len(RawLines) : IsNormalized(e, RawLines[i])
        /\ \E k \in 1..Len(e) : e[k] \notin Whitespace}

\* C13: a ':' line with a ';' becomes the text after its first ';', any other
\* line is used verbatim, and a line whose normalized text is blank is
\* dropped, so that every loaded entry is non-empty after trimming.
C13_Normalized ==
    pc = "init" =>
        LET h == command_history IN
        /\ {h[i] : i \in 1..Len(h)} = Surviving
        /\ \A i \in 1..Len(h) : \E k \in 1..Len(h[i]) : h[i][k] \notin Whitespace
        /\ RawLines = <<zsh_ls_la>> => h = <<ls_la>>
        /\ RawLines = <<zsh_ls_semi_ls>> => h = <<ls_semi_ls>>
        /\ RawLines = <<colon_ls>> => h = <<colon_ls>>

\* A timestamped line was cut, a ':' line without ';' and a plain line with a
\* ';' were kept whole, and a line blank after the cut was dropped.
C13_Witness ==
    /\ pc = "init"
    /\ RawLines = <<zsh_ls_la, colon_ls, zsh_blank>>
    /\ command_history = <<colon_ls, ls_la>>

\* The first candidate that exists, or 0.
FirstExisting ==
    IF \A i \in 1..Len(PATHS) : fs[i] = Absent THEN 0
    ELSE CHOOSE i \in 1..Len(PATHS) :
            fs[i] /= Absent /\ \A j \in 1..(i - 1) : fs[j] = Absent

FirstUnreadable == FirstExisting /= 0 /\ fs[FirstExisting] = Unreadable
FirstReadable == FirstExisting /= 0 /\ fs[FirstExisting] /= Unreadable

\* C14: with HOME set, the history is that of the first existing candidate
\* alone; with no candidate it is empty and nothing is reported; when the
\* first existing candidate cannot be read startup fails with an error, no
\* later candidate is read, and neither the session nor the raw terminal
\* mode is ever entered.
C14_FirstCandidateOnly ==
    /\ [][(pc = "new" /\ home_set /\ FirstReadable) =>
            /\ pc' = "init"
            /\ command_history' = load_file(fs[FirstExisting][2])
            /\ stderr' = stderr]_vars
    /\ [][(pc = "new" /\ home_set /\ FirstExisting = 0) =>
            /\ pc' = "init"
            /\ command_history' = <<>>
            /\ stderr' = stderr]_vars
    /\ [][(pc = "new" /\ home_set /\ FirstUnreadable) =>
            /\ pc' = "exited"
            /\ exit_status' = Some(1)
            /\ stderr' /= stderr]_vars
    /\ []((home_set /\ FirstUnreadable) =>
            /\ pc \in {"new", "exited"}
            /\ terminal = "cooked"
            /\ key = NoKey
            /\ command_history = <<>>)

\* .bash_history cannot be read while .zsh_history could: startup failed.
C14_Witness ==
    /\ pc = "exited"
    /\ home_set
    /\ fs = <<Unreadable, File(<<ls, cd_tmp>>)>>
    /\ exit_status = Some(1)
    /\ terminal = "cooked"

----------------------------------------------------------------------------
(* Frame conditions and the further properties of the session *)

\* What C15 and C16 call the engine state besides the cursor.
QueryViewResult ==
    <<search_input, filtered_commands, should_quit, selected_command>>

\* MoveUp or MoveDown on an empty filtered view changes nothing of the engine.
MoveOnEmptyIsNoOp ==
    [][((\E k \in MoveDownKeys \cup MoveUpKeys : Handled(k))
          /\ filtered_commands = <<>>) => appVars' = appVars]_vars

\* C15 as stated: MoveUp or MoveDown on an empty view, and Backspace on an
\* empty query, leave the whole engine state unchanged.
C15_Original ==
    /\ MoveOnEmptyIsNoOp
    /\ [][(Handled(Backspace) /\ search_input = <<>>)
            => appVars' = appVars]_vars

\* C15 amended: MoveUp or MoveDown on an empty view leave the whole engine
\* state unchanged; Backspace on an empty query leaves the query, the view,
\* the terminated flag and the result unchanged and puts the cursor on row 0
\* (None when the view is empty).
C15_Amended ==
    /\ MoveOnEmptyIsNoOp
    /\ [][(Handled(Backspace) /\ search_input = <<>>) =>
            /\ QueryViewResult' = QueryViewResult
            /\ command_history' = command_history
            /\ selected' = IF filtered_commands /= <<>>
                           THEN Some(0) ELSE None]_vars

\* Backspace was handled and the query is empty: the cursor is on row 0 of a
\* view of the whole history.
C15_Witness ==
    /\ pc = "check"
    /\ key = Backspace
    /\ search_input = <<>>
    /\ Len(filtered_commands) = MaxHist
    /\ selected = Some(0)
    /\ cli_args = <<>>

\* C16: an unrecognized key changes no field of the engine; MoveUp and
\* MoveDown change nothing but the cursor; no step changes command_history.
C16_Frame ==
    /\ [][(Handled(Tab) \/ Handled(Resize)) => appVars' = appVars]_vars
    /\ [][(\E k \in MoveDownKeys \cup MoveUpKeys : Handled(k)) =>
            /\ QueryViewResult' = QueryViewResult
            /\ command_history' = command_history]_vars
    /\ [][command_history' = command_history]_vars

\* An unrecognized key was handled with the cursor off row 0 and a query set.
C16_Witness ==
    /\ pc = "check"
    /\ key = Tab
    /\ selected = Some(1)
    /\ search_input /= <<>>
    /\ ~should_quit

\* C17: a failed exec is reported on the error stream and the process exits
\* with status 1; the exec is attempted once, and after an attempt nothing
\* else runs: no retry, no other launch, no return to the loop.
C17_ExecFailureFatal ==
    /\ [][(pc = "launch" /\ selected_command /= None /\ pc' = "exited") =>
            /\ launched' = <<parse_command_string(selected_command[1])>>
            /\ stderr' = Append(stderr, "Failed to exec")
            /\ exit_status' = Some(1)]_vars
    /\ [](Len(launched) <= 1)
    /\ []((pc = "exited" /\ launched /= <<>>) =>
            exit_status = Some(1) /\ stderr = <<"Failed to exec">>)
    /\ [][launched = <<>>]_vars

\* The exec of ls -la has failed.
C17_Witness ==
    /\ pc = "exited"
    /\ launched = << <<ls, <<dash_la>>>> >>
    /\ stderr = <<"Failed to exec">>
    /\ exit_status = Some(1)

\* The number of q, j and k characters in a string.
CountQJK(str) == Cardinality({i \in 1..Len(str) : str[i] \in {"q", "j", "k"}})

\* A press of q ends the session with no selection made by it; j and k move
\* the cursor as Down and Up do; none of the three changes the query, and no
\* step adds a q, j or k to it.
QJKNeverAppend ==
    /\ [][Handled(Char("q")) =>
            /\ should_quit'
            /\ selected_command' = selected_command
            /\ search_input' = search_input]_vars
    /\ [][Handled(Char("j")) =>
            /\ search_input' = search_input
            /\ selected' = IF Rows = 0 THEN selected
                           ELSE Some((selected[1] + 1) % Rows)]_vars
    /\ [][Handled(Char("k")) =>
            /\ search_input' = search_input
            /\ selected' = IF Rows = 0 THEN selected
                           ELSE Some((selected[1] + Rows - 1) % Rows)]_vars
    /\ [][CountQJK(search_input') <= CountQJK(search_input)]_vars
    /\ [](CountQJK(search_input) <= CountQJK(join(cli_args)))

\* C18 as stated: q, j and k never append, the query never gains a q, j or
\* k, and the filter narrows by those letters only as far as the seed holds
\* them: the query the filter compares, lowercased, has no more of them than
\* the lowercased seed.
C18_Original ==
    /\ QJKNeverAppend
    /\ [](CountQJK(to_lowercase(search_input))
            <= CountQJK(to_lowercase(join(cli_args))))

\* C18 amended: q, j and k never append and the query never gains a q, j or
\* k; the filter narrows by those letters through the seed or through a typed
\* capital Q, J or K, which is appended and matches case-insensitively.
C18_Amended ==
    /\ QJKNeverAppend
    /\ [][CountQJK(to_lowercase(search_input'))
             > CountQJK(to_lowercase(search_input)) =>
            \E c \in {"Q", "J", "K"} :
                /\ Handled(Char(c))
                /\ search_input' = Append(search_input, c)]_vars

\* After a typed capital Q, a press of j was handled: the query is still Q.
C18_Witness ==
    /\ pc = "check"
    /\ key = Char("j")
    /\ search_input = <<"Q">>
    /\ ~should_quit

\* a is a subsequence of b: a is b with some elements left out.
RECURSIVE IsSubsequence(_, _)
IsSubsequence(a, b) ==
    IF a = <<>> THEN TRUE
    ELSE IF b = <<>> THEN FALSE
    ELSE IF a[1] = b[1] THEN IsSubsequence(Tail(a), Tail(b))
    ELSE IsSubsequence(a, Tail(b))

\* C19: after AppendChar the new view is a subsequence of the old one, after
\* Backspace the old view is a subsequence of the new one, and a Backspace
\* right after an AppendChar gives back the query and the view.
C19_Monotone ==
    /\ [][(\E k \in AppendCharKeys : Handled(k)) =>
            /\ IsSubsequence(filtered_commands', filtered_commands)
            /\ pop(search_input') = search_input
            /\ filter_commands(command_history', pop(search_input'))
                 = filtered_commands]_vars
    /\ [][Handled(Backspace) =>
            IsSubsequence(filtered_commands, filtered_commands')]_vars

\* C20: selected_command is Some only once should_quit is set, and then it is
\* the text of a history entry listed in filtered_commands, one whose
\* lowercased text contains the lowercased query; what is handed to the
\* launcher is the tokenization of that text.
C20_ResultWasVisible ==
    /\ selected_command /= None =>
          /\ should_quit
          /\ \E i \in 1..Len(filtered_commands) :
                command_history[filtered_commands[i] + 1] = selected_command[1]
          /\ selected_command[1] \in
                {command_history[i] : i \in 1..Len(command_history)}
          /\ contains(to_lowercase(selected_command[1]),
                      to_lowercase(search_input))
    /\ launched /= <<>> =>
          /\ selected_command /= None
          /\ launched = <<parse_command_string(selected_command[1])>>

\* ls -la, chosen under the typed query L from a longer history, was launched.
C20_Witness ==
    /\ pc = "replaced"
    /\ search_input = <<"L">>
    /\ selected_command = Some(ls_la)
    /\ Len(filtered_commands) < Len(command_history)
    /\ launched = << <<ls, <<dash_la>>>> >>

====
